---- MODULE Spec2Model ----
(***************************************************************************)
(* Model of the telemetry ingestion scripts:                               *)
(*   scripts/parse_otel_metrics.py  (block extractor, lenient parser,      *)
(*                                   classifier, persistence)              *)
(*   scripts/combine_sources.py     (transcript merger)                    *)
(*   scripts/generate_local_report.py (cache-efficiency computation)       *)
(*                                                                         *)
(* Text is a sequence of one-character strings.  The SQLite store is a     *)
(* record of tables, each table a sequence of rows in rowid order.         *)
(* Every row carries two history fields, tx and seq: the number of the     *)
(* transaction that inserted it and its global insertion rank.             *)
(***************************************************************************)
EXTENDS Integers, Sequences, FiniteSets, TLC

VARIABLES
    durable,    \* committed content of the database file
    conn,       \* store connection of the running operation: "none", "open", "closed"
    pc,         \* "idle", or "storing" while parse_log_file loops over its metrics
    todo,       \* metrics of the current log file not yet passed to store_metric
    calls,      \* store_metric calls made so far
    merges,     \* merge_data calls made so far
    clock,      \* datetime.now()
    txid,       \* number of the transaction the next insert belongs to
    atStart,    \* history: durable when the parse_log_file run began, or after a
                \* later finish or merge
    last,       \* history: the last top-level step, its input and the store before it
    text,       \* extractor input: the log content
    result,     \* the metrics extract_metrics_from_log returns, or as a
                \* one-element list the value parse_metric_block returns
                \* (empty for None)
    cleaned,    \* history: the successive values of parse_metric_block's `cleaned`
    tpc,        \* position of the text pipeline: "input", "extracted", "parsed"
    runs,       \* history: the whole runs made so far, oldest first
    report      \* what the latest calculate_cache_metrics returned

vars == <<durable, conn, pc, todo, calls, merges, clock, txid, atStart, last,
          text, result, cleaned, tpc, runs, report>>

storeVars == <<durable, conn, pc, todo, calls, merges, clock, txid, atStart, last>>
textVars == <<text, result, cleaned, tpc>>
runVars == <<runs, report>>

-----------------------------------------------------------------------------
(* Bounds *)

MaxCalls == 2
MaxBatch == 2
MaxMerges == 1
MaxChunks == 3

-----------------------------------------------------------------------------
(* Strings *)

UpperAlpha == <<"A","B","C","D","E","F","G","H","I","J","K","L","M",
                "N","O","P","Q","R","S","T","U","V","W","X","Y","Z">>
LowerAlpha == <<"a","b","c","d","e","f","g","h","i","j","k","l","m",
                "n","o","p","q","r","s","t","u","v","w","x","y","z">>

\* str.lower() on one character
LowerChar(c) ==
    IF \E i \in 1..Len(UpperAlpha) : UpperAlpha[i] = c
    THEN LowerAlpha[CHOOSE i \in 1..Len(UpperAlpha) : UpperAlpha[i] = c]
    ELSE c

\* str.lower()
Lower(s) == [i \in 1..Len(s) |-> LowerChar(s[i])]

\* sub in s
Contains(sub, s) ==
    \E i \in 1..(Len(s) - Len(sub) + 1) :
        \A j \in 1..Len(sub) : s[i + j - 1] = sub[j]

\* the elements of a set of positions in increasing order
Ascending(S) ==
    [j \in 1..Cardinality(S) |->
       CHOOSE i \in S : Cardinality({ k \in S : k <= i }) = j]

\* the least element of a nonempty set of positions
Least(S) == CHOOSE i \in S : \A k \in S : i <= k

\* s.find(c, from), 0 when absent
FindChar(s, c, from) ==
    LET hits == { i \in from..Len(s) : s[i] = c }
    IN  IF hits = {} THEN 0 ELSE Least(hits)

\* metric_name.split('.')[-1] if '.' in metric_name else metric_name
RECURSIVE LastSegment(_)
LastSegment(name) ==
    LET d == FindChar(name, ".", 1)
    IN  IF d = 0 THEN name ELSE LastSegment(SubSeq(name, d + 1, Len(name)))

KwToken == <<"t","o","k","e","n">>
KwCost == <<"c","o","s","t">>
KwActiveTime == <<"a","c","t","i","v","e","_","t","i","m","e">>
KwCommit == <<"c","o","m","m","i","t">>
KwPullRequest == <<"p","u","l","l","_","r","e","q","u","e","s","t">>
KwLinesOfCode == <<"l","i","n","e","s","_","o","f","_","c","o","d","e">>

-----------------------------------------------------------------------------
(* The store *)

NULL == "<null>"

TableNames == {"sessions", "token_usage", "cost_usage", "active_time",
               "code_activity", "raw_metrics", "session_messages"}

UsageTables == {"token_usage", "cost_usage", "active_time", "code_activity"}

\* create_database on a fresh file, then create_messages_table
EmptyStore == [t \in TableNames |-> <<>>]

\* rank of the next inserted row
NextSeq(db) ==
    1 + Len(db["sessions"]) + Len(db["token_usage"]) + Len(db["cost_usage"])
      + Len(db["active_time"]) + Len(db["code_activity"]) + Len(db["raw_metrics"])
      + Len(db["session_messages"])

\* cursor.execute('INSERT INTO <table> ...')
Insert(db, table, row, tx) ==
    [db EXCEPT ![table] = Append(@, row @@ [tx |-> tx, seq |-> NextSeq(db)])]

\* A stored integer is kept at its SQLite width: a signed 64-bit value,
\* written as three limbs <<h2, h1, h0>> for h2 * 2^60 + h1 * 2^30 + h0
LimbBase == 1073741824

\* the small number v < 2^30 as a stored integer
Int64(v) == <<0, 0, v>>

\* the first h2 limb beyond the largest 64-bit integer, 2^63 - 1
Int64Limit == 8

\* mutant of Get: dict.get(key), the default left out
Get_NoDefault(d, k, default) == IF k \in DOMAIN d THEN d[k] ELSE "<null>"

\* dict.get(key, default)
Get(d, k, default) == IF k \in DOMAIN d THEN d[k] ELSE default

-----------------------------------------------------------------------------
(* store_metric *)

\* mutant of EnsureSession: the session insert is left out
EnsureSession_Skipped(db, session_id, user_id, model, ts, tx) == db

\* INSERT OR IGNORE INTO sessions: the UNIQUE constraint on session_id
\* rejects a second row with an equal non-NULL session_id; NULLs never conflict
EnsureSession(db, session_id, user_id, model, ts, tx) ==
    IF session_id # NULL
       /\ \E i \in 1..Len(db["sessions"]) : db["sessions"][i].session_id = session_id
    THEN db
    ELSE Insert(db, "sessions",
                [session_id |-> session_id, user_id |-> user_id,
                 model |-> model, started_at |-> ts], tx)

\* mutant of Classify: the cost branch is tested before the token branch
Classify_CostFirst(metric_name) ==
    LET n == Lower(metric_name)
    IN  IF Contains(KwCost, n) THEN "cost_usage"
        ELSE IF Contains(KwToken, n) THEN "token_usage"
        ELSE IF Contains(KwActiveTime, n) THEN "active_time"
        ELSE IF \E x \in {KwCommit, KwPullRequest, KwLinesOfCode} : Contains(x, n)
             THEN "code_activity"
        ELSE "none"

\* mutant of Classify: the last branch is an else
Classify_ElseActivity(metric_name) ==
    LET n == Lower(metric_name)
    IN  IF Contains(KwToken, n) THEN "token_usage"
        ELSE IF Contains(KwCost, n) THEN "cost_usage"
        ELSE IF Contains(KwActiveTime, n) THEN "active_time"
        ELSE "code_activity"

\* the if/elif chain on metric_name.lower(); "none" when no branch is taken
Classify(metric_name) ==
    LET n == Lower(metric_name)
    IN  IF Contains(KwToken, n) THEN "token_usage"
        ELSE IF Contains(KwCost, n) THEN "cost_usage"
        ELSE IF Contains(KwActiveTime, n) THEN "active_time"
        ELSE IF \E x \in {KwCommit, KwPullRequest, KwLinesOfCode} : Contains(x, n)
             THEN "code_activity"
        ELSE "none"

\* the row of the INSERT in the taken branch
UsageRow(table, metric_name, attrs, session_id, model, value, ts) ==
    CASE table = "token_usage" ->
           [session_id |-> session_id, timestamp |-> ts, model |-> model,
            token_type |-> Get(attrs, "type", "unknown"), value |-> value]
      [] table = "cost_usage" ->
           [session_id |-> session_id, timestamp |-> ts, model |-> model,
            value |-> value]
      [] table = "active_time" ->
           [session_id |-> session_id, timestamp |-> ts, value |-> value]
      [] table = "code_activity" ->
           [session_id |-> session_id, timestamp |-> ts,
            activity_type |-> LastSegment(metric_name), value |-> value]

\* mutant of StoreDataPoint: the value is added onto the value of the last row
\* the table holds
StoreDataPoint_Cumulative(db, metric_name, dp, ts, tx) ==
    IF ~dp.isMap THEN [db |-> db, raised |-> TRUE]
    ELSE
      LET attrs == IF dp.hasAttrs THEN dp.attrs ELSE <<>>
          session_id == Get(attrs, "session.id", Get(attrs, "session_id", "unknown"))
          user_id == Get(attrs, "user.id", Get(attrs, "user_id", "unknown"))
          model == Get(attrs, "model", "unknown")
          value == IF dp.hasValue THEN dp.value ELSE Int64(0)
          db1 == EnsureSession(db, session_id, user_id, model, ts, tx)
          table == Classify(metric_name)
      IN  IF table = "none" THEN [db |-> db1, raised |-> FALSE]
          ELSE IF dp.hasValue /\ ~dp.bindable THEN [db |-> db1, raised |-> TRUE]
          ELSE LET held == IF db1[table] = <<>> THEN Int64(0)
                           ELSE db1[table][Len(db1[table])].value
                   total == <<value[1] + held[1], value[2] + held[2],
                              value[3] + held[3]>>
               IN  [db |-> Insert(db1, table,
                                  UsageRow(table, metric_name, attrs, session_id,
                                           model, total, ts), tx),
                    raised |-> FALSE]

\* one iteration of `for dp in data_points`; raised when the iteration throws
\* (dp is not a mapping: dp.get fails; the value is a list: the INSERT cannot bind it)
StoreDataPoint(db, metric_name, dp, ts, tx) ==
    IF ~dp.isMap THEN [db |-> db, raised |-> TRUE]
    ELSE
      LET attrs == IF dp.hasAttrs THEN dp.attrs ELSE <<>>
          session_id == Get(attrs, "session.id", Get(attrs, "session_id", "unknown"))
          user_id == Get(attrs, "user.id", Get(attrs, "user_id", "unknown"))
          model == Get(attrs, "model", "unknown")
          value == IF dp.hasValue THEN dp.value ELSE Int64(0)
          db1 == EnsureSession(db, session_id, user_id, model, ts, tx)
          table == Classify(metric_name)
      IN  IF table = "none" THEN [db |-> db1, raised |-> FALSE]
          ELSE IF dp.hasValue /\ ~dp.bindable THEN [db |-> db1, raised |-> TRUE]
          ELSE [db |-> Insert(db1, table,
                              UsageRow(table, metric_name, attrs, session_id,
                                       model, value, ts), tx),
                raised |-> FALSE]

\* for dp in data_points
RECURSIVE StoreDataPoints(_, _, _, _, _, _)
StoreDataPoints(db, metric_name, dps, i, ts, tx) ==
    IF i > Len(dps) THEN [db |-> db, raised |-> FALSE]
    ELSE LET r == StoreDataPoint(db, metric_name, dps[i], ts, tx)
         IN  IF r.raised THEN r
             ELSE StoreDataPoints(r.db, metric_name, dps, i + 1, ts, tx)

\* store_metric(conn, metric) on a connection whose view is db.
\*   db        the connection's view when the call ends
\*   raised    the call threw, nothing of it was committed
\*   committed conn.commit() was reached
store_metric(db, metric, ts, tx) ==
    IF ~metric.hasDescriptor
    THEN [db |-> db, raised |-> FALSE, committed |-> FALSE]
    ELSE IF ~metric.descriptorIsMap
    THEN [db |-> db, raised |-> TRUE, committed |-> FALSE]
    ELSE
      LET db1 == Insert(db, "raw_metrics",
                        [timestamp |-> ts, metric_name |-> metric.name,
                         raw_json |-> metric], tx)
      IN  IF ~metric.dataPointsIsList
          THEN [db |-> db1, raised |-> TRUE, committed |-> FALSE]
          ELSE LET r == StoreDataPoints(db1, metric.name, metric.dataPoints, 1, ts, tx)
               IN  [db |-> r.db, raised |-> r.raised, committed |-> ~r.raised]

-----------------------------------------------------------------------------
(* Parsed metric objects handed to store_metric *)

NameTokenUsage == <<"c","l","a","u","d","e","_","c","o","d","e",".","t","o","k","e","n",".","u","s","a","g","e">>
NameCostUsage == <<"c","l","a","u","d","e","_","c","o","d","e",".","c","o","s","t",".","u","s","a","g","e">>
NameActiveTime == <<"c","l","a","u","d","e","_","c","o","d","e",".","a","c","t","i","v","e","_","t","i","m","e",".","t","o","t","a","l">>
NameCommitCount == <<"c","l","a","u","d","e","_","c","o","d","e",".","c","o","m","m","i","t",".","c","o","u","n","t">>
NameTokenCost == <<"C","o","s","t",".","T","o","k","e","n">>
NameFooBarBaz == <<"f","o","o",".","b","a","r",".","b","a","z">>

\* a data point {attributes: attrs, value: v}
DP(attrs, v) ==
    [isMap |-> TRUE, hasAttrs |-> TRUE, attrs |-> attrs,
     hasValue |-> TRUE, value |-> Int64(v), bindable |-> TRUE]

\* a data point without attributes and without value: {}
DPEmpty == [DP(<<>>, 0) EXCEPT !.hasAttrs = FALSE, !.hasValue = FALSE]

\* a data point whose value is a list: {attributes: attrs, value: [v]}
DPListValue(attrs, v) == [DP(attrs, v) EXCEPT !.bindable = FALSE]

\* a dataPoints element that is a number, not a mapping
DPScalar == [DP(<<>>, 0) EXCEPT !.isMap = FALSE]

\* {descriptor: {name: name}, dataPoints: dps}
Metric(name, dps) ==
    [hasDescriptor |-> TRUE, descriptorIsMap |-> TRUE, name |-> name,
     dataPointsIsList |-> TRUE, dataPoints |-> dps]

AttrsS1Output == ("session.id" :> "s1") @@ ("type" :> "output")
AttrsS1Full == ("session_id" :> "s1") @@ ("user.id" :> "u1") @@ ("model" :> "m1")
                 @@ ("type" :> "input")
AttrsS2 == ("session.id" :> "s2") @@ ("session_id" :> "s1") @@ ("user_id" :> "u2")
             @@ ("type" :> "cacheRead")
AttrsNull == ("session_id" :> NULL) @@ ("type" :> "input")

SampleMetrics ==
    { Metric(NameTokenUsage,
             << DP(AttrsS1Output, 42), DP(AttrsS1Full, 7), DP(AttrsS2, 5) >>),
      Metric(NameTokenUsage, << DP(AttrsNull, 1) >>),
      Metric(NameTokenUsage, << DP(AttrsS2, 3), DPListValue(AttrsS1Full, 9) >>),
      Metric(NameTokenUsage, << DPScalar >>),
      Metric(NameCostUsage, << DP(AttrsS1Full, 2) >>),
      Metric(NameTokenCost, << DPEmpty >>),
      Metric(NameActiveTime, << DP(AttrsS2, 30) >>),
      Metric(NameCommitCount, << DP(AttrsS1Output, 1) >>),
      Metric(NameFooBarBaz, << DP(AttrsS1Full, 4), DP(AttrsS2, 6) >>),
      [Metric(NameFooBarBaz, << >>) EXCEPT !.descriptorIsMap = FALSE],
      [Metric(NameTokenUsage, << >>) EXCEPT !.dataPointsIsList = FALSE],
      [Metric(NameFooBarBaz, << >>) EXCEPT !.hasDescriptor = FALSE] }

NoMetric == [Metric(<<>>, << >>) EXCEPT !.hasDescriptor = FALSE]

-----------------------------------------------------------------------------
(* parse_log_file: create_database, then store_metric per extracted metric *)

Step(op, metric, files, raised, committed) ==
    [op |-> op, metric |-> metric, files |-> files, before |-> durable,
     raised |-> raised, committed |-> committed]

\* open(log_path), create_database, extract_metrics_from_log: n metrics found
Begin ==
    /\ pc = "idle"
    /\ \E n \in 0..MaxBatch :
         /\ n <= MaxCalls - calls
         /\ todo' = n
    /\ pc' = "storing"
    /\ conn' = "open"
    /\ atStart' = durable
    /\ last' = Step("begin", NoMetric, <<>>, FALSE, FALSE)
    /\ UNCHANGED <<durable, calls, merges, clock, txid>>

\* one iteration of `for metric in metrics: store_metric(conn, metric)`;
\* an exception leaves parse_log_file before conn.close()
StoreMetric ==
    /\ pc = "storing"
    /\ todo > 0
    /\ \E metric \in SampleMetrics :
         LET r == store_metric(durable, metric, clock, txid)
         IN  /\ durable' = IF r.committed THEN r.db ELSE durable
             /\ txid' = IF r.committed THEN txid + 1 ELSE txid
             /\ pc' = IF r.raised THEN "idle" ELSE "storing"
             /\ todo' = IF r.raised THEN 0 ELSE todo - 1
             /\ last' = Step("store", metric, <<>>, r.raised, r.committed)
    /\ calls' = calls + 1
    /\ clock' = clock + 1
    /\ UNCHANGED <<conn, merges, atStart>>

\* the summary queries, then conn.close()
Finish ==
    /\ pc = "storing"
    /\ todo = 0
    /\ pc' = "idle"
    /\ conn' = "closed"
    /\ atStart' = durable
    /\ last' = Step("finish", NoMetric, <<>>, FALSE, FALSE)
    /\ UNCHANGED <<durable, todo, calls, merges, clock, txid>>

\* the process dies between two store_metric calls
Crash ==
    /\ pc = "storing"
    /\ pc' = "idle"
    /\ conn' = "none"
    /\ todo' = 0
    /\ last' = Step("crash", NoMetric, <<>>, FALSE, FALSE)
    /\ UNCHANGED <<durable, calls, merges, clock, txid, atStart>>

-----------------------------------------------------------------------------
(* merge_data: the transcript merger *)

PreviewLen == 200

\* content[:200]
Preview(s) == IF Len(s) > PreviewLen THEN SubSeq(s, 1, PreviewLen) ELSE s

\* parse_session_jsonl: blank lines and lines json.loads rejects are dropped
parse_session_jsonl(lines) ==
    LET kept == SelectSeq(lines, LAMBDA l : l.kind = "json")
    IN  [i \in 1..Len(kept) |-> kept[i].entry]

\* extract_usage_from_entry on a usage mapping
extract_usage_from_entry(usage) ==
    [input_tokens |-> Get(usage, "input_tokens", 0),
     output_tokens |-> Get(usage, "output_tokens", 0),
     cache_read |-> Get(usage, "cache_read_input_tokens", 0),
     cache_creation |-> Get(usage, "cache_creation_input_tokens", 0)]

\* the first item of a content list that is a mapping with type == 'tool_use'
RECURSIVE ToolUse(_, _)
ToolUse(items, i) ==
    IF i > Len(items) THEN NULL
    ELSE IF items[i].isMap /\ items[i].type = "tool_use"
         THEN (IF items[i].hasName THEN items[i].name ELSE "unknown_tool")
    ELSE ToolUse(items, i + 1)

\* the body of `for entry in entries` up to the INSERT: the row it binds, or
\* raised when a step of the body throws (entry.get on a non-mapping,
\* slicing a number, usage.get on null, binding a list)
MessageRow(session_id, entry) ==
    LET NoRow == [raised |-> TRUE, row |-> <<>>]
    IN
    IF ~entry.isMap THEN NoRow
    ELSE
      LET items == entry.contentItems
          \* content after the list handling: [sliceable, truthy, s]
          content ==
            CASE entry.contentKind = "absent" ->
                   [sliceable |-> TRUE, truthy |-> FALSE, s |-> <<>>]
              [] entry.contentKind = "str" ->
                   [sliceable |-> TRUE, truthy |-> entry.contentStr # <<>>,
                    s |-> entry.contentStr]
              [] entry.contentKind = "num" ->
                   [sliceable |-> FALSE, truthy |-> entry.contentNum # 0, s |-> <<>>]
              [] entry.contentKind = "list" ->
                   IF items = <<>>
                   THEN [sliceable |-> TRUE, truthy |-> FALSE, s |-> <<>>]
                   ELSE IF items[1].isMap /\ items[1].hasText
                   THEN [sliceable |-> TRUE, truthy |-> items[1].text # <<>>,
                         s |-> items[1].text]
                   ELSE [sliceable |-> TRUE, truthy |-> TRUE, s |-> items[1].repr]
          tool_use == IF entry.contentKind = "list" THEN ToolUse(items, 1) ELSE NULL
      IN  IF content.truthy /\ ~content.sliceable THEN NoRow
          ELSE IF entry.usageKind = "null" THEN NoRow
          ELSE IF entry.roleKind = "list" THEN NoRow
          ELSE
            LET usage == extract_usage_from_entry(
                           IF entry.usageKind = "map" THEN entry.usage ELSE <<>>)
            IN  [raised |-> FALSE,
                 row |-> [session_id |-> session_id,
                          timestamp |-> NULL,
                          role |-> IF entry.roleKind = "str" THEN entry.role
                                   ELSE "unknown",
                          content_preview |-> IF content.truthy
                                              THEN Preview(content.s) ELSE <<>>,
                          tool_use |-> tool_use,
                          usage_input_tokens |-> usage.input_tokens,
                          usage_output_tokens |-> usage.output_tokens,
                          usage_cache_read |-> usage.cache_read,
                          usage_cache_creation |-> usage.cache_creation]]

\* for entry in entries
RECURSIVE MergeEntries(_, _, _, _, _)
MergeEntries(db, session_id, entries, i, tx) ==
    IF i > Len(entries) THEN [db |-> db, raised |-> FALSE]
    ELSE LET r == MessageRow(session_id, entries[i])
         IN  IF r.raised THEN [db |-> db, raised |-> TRUE]
             ELSE MergeEntries(Insert(db, "session_messages", r.row, tx),
                               session_id, entries, i + 1, tx)

\* for jsonl_file in session_files
RECURSIVE MergeFiles(_, _, _, _)
MergeFiles(db, files, k, tx) ==
    IF k > Len(files) THEN [db |-> db, raised |-> FALSE]
    ELSE LET r == MergeEntries(db, files[k].stem,
                               parse_session_jsonl(files[k].lines), 1, tx)
         IN  IF r.raised THEN r ELSE MergeFiles(r.db, files, k + 1, tx)

(* Transcript files *)

Item(type, txt) ==
    [isMap |-> TRUE, hasText |-> TRUE, text |-> txt, type |-> type,
     hasName |-> FALSE, name |-> "", repr |-> <<"{","}">>]

ToolItem(name) ==
    [isMap |-> TRUE, hasText |-> FALSE, text |-> <<>>, type |-> "tool_use",
     hasName |-> TRUE, name |-> name, repr |-> <<"{","t","}">>]

Entry(role, txt) ==
    [isMap |-> TRUE, roleKind |-> "str", role |-> role,
     contentKind |-> "str", contentStr |-> txt, contentNum |-> 0,
     contentItems |-> <<>>, usageKind |-> "absent", usage |-> <<>>]

Line(entry) == [kind |-> "json", entry |-> entry]
BlankLine == [kind |-> "blank", entry |-> Entry("", <<>>)]
InvalidLine == [kind |-> "invalid", entry |-> Entry("", <<>>)]

UserLine == Line(Entry("user", <<"h","i">>))
AssistantLine ==
    Line([Entry("assistant", <<>>) EXCEPT
            !.contentKind = "list",
            !.contentItems = << Item("text", <<"o","k">>), ToolItem("Bash") >>,
            !.usageKind = "map",
            !.usage = ("input_tokens" :> 3) @@ ("cache_read_input_tokens" :> 5)])
BareLine ==
    Line([Entry("", <<>>) EXCEPT !.roleKind = "absent", !.contentKind = "absent"])
\* a line holding a JSON number: 42
ScalarLine == Line([Entry("", <<>>) EXCEPT !.isMap = FALSE])
\* {"role": "user", "content": 5}
NumContentLine ==
    Line([Entry("user", <<>>) EXCEPT !.contentKind = "num", !.contentNum = 5])
\* {"role": "user", "usage": null}
NullUsageLine == Line([Entry("user", <<"h","i">>) EXCEPT !.usageKind = "null"])
\* {"role": ["user"], "content": "hi"}
ListRoleLine == Line([Entry("", <<"h","i">>) EXCEPT !.roleKind = "list"])

File(stem, lines) == [stem |-> stem, lines |-> lines]

SampleFileLists ==
    { << >>,
      << File("s1", << BlankLine, UserLine, InvalidLine, AssistantLine >>) >>,
      << File("t9", << BareLine >>), File("s1", << UserLine >>) >>,
      << File("t9", << UserLine, ScalarLine, UserLine >>) >>,
      << File("s1", << AssistantLine >>), File("t9", << NumContentLine >>) >>,
      << File("t9", << NullUsageLine, UserLine >>) >>,
      << File("t9", << UserLine, ListRoleLine >>) >> }

\* merge_data(db_path): one transaction, committed after the last file;
\* with no session file the connection is closed at once
MergeData ==
    /\ pc = "idle"
    /\ merges < MaxMerges
    /\ \E files \in SampleFileLists :
         LET r == MergeFiles(durable, files, 1, txid)
             committed == files # <<>> /\ ~r.raised
         IN  /\ durable' = IF committed THEN r.db ELSE durable
             /\ txid' = IF committed THEN txid + 1 ELSE txid
             /\ conn' = IF r.raised THEN "open" ELSE "closed"
             /\ last' = Step("merge", NoMetric, files, r.raised, committed)
    /\ merges' = merges + 1
    /\ atStart' = durable'
    /\ UNCHANGED <<pc, todo, calls, clock>>

\* x / y if y > 0 else 0, the quotient kept as the fraction x / y
Ratio(x, y) ==
    IF y # Int64(0) THEN [num |-> x, den |-> y]
    ELSE [num |-> Int64(0), den |-> Int64(1)]

NoMetrics ==
    [cache_read_tokens |-> Int64(0), cache_creation_tokens |-> Int64(0),
     input_tokens |-> Int64(0), cache_hit_ratio |-> Ratio(Int64(0), Int64(0)),
     cache_efficiency |-> Ratio(Int64(0), Int64(0)),
     cache_read_creation_ratio |-> Ratio(Int64(0), Int64(0)),
     estimated_savings |-> [tokens |-> Int64(0), rate |-> <<3, 9>>]]

\* no calculate_cache_metrics call yet
NoReport == [raised |-> FALSE, metrics |-> NoMetrics]

Init ==
    /\ durable = EmptyStore
    /\ conn = "none"
    /\ pc = "idle"
    /\ todo = 0
    /\ calls = 0
    /\ merges = 0
    /\ clock = 1
    /\ txid = 1
    /\ atStart = EmptyStore
    /\ last = [op |-> "init", metric |-> NoMetric, files |-> <<>>,
               before |-> EmptyStore, raised |-> FALSE, committed |-> FALSE]
    /\ text = <<>>
    /\ result = <<>>
    /\ cleaned = <<>>
    /\ tpc = "none"
    /\ runs = <<>>
    /\ report = NoReport

Next ==
    \/ (Begin /\ UNCHANGED <<textVars, runVars>>)
    \/ (StoreMetric /\ UNCHANGED <<textVars, runVars>>)
    \/ (Finish /\ UNCHANGED <<textVars, runVars>>)
    \/ (Crash /\ UNCHANGED <<textVars, runVars>>)
    \/ (MergeData /\ UNCHANGED <<textVars, runVars>>)

Spec == Init /\ [][Next]_vars

-----------------------------------------------------------------------------
(* Whole runs of the top-level operations, one after the other on one store *)

MaxRuns == 2

\* for metric in metrics: store_metric(conn, metric); each call commits its own
\* transaction and reads the clock; an exception ends the loop
RECURSIVE StoreMetrics(_, _, _, _, _)
StoreMetrics(db, metrics, i, ts, tx) ==
    IF i > Len(metrics) THEN [db |-> db, raised |-> FALSE, ts |-> ts, tx |-> tx]
    ELSE LET r == store_metric(db, metrics[i], ts, tx)
         IN  IF r.raised
             THEN [db |-> db, raised |-> TRUE, ts |-> ts + 1, tx |-> tx]
             ELSE IF r.committed
             THEN StoreMetrics(r.db, metrics, i + 1, ts + 1, tx + 1)
             ELSE StoreMetrics(db, metrics, i + 1, ts + 1, tx)

\* parse_log_file(log_path, db_path) on a log that holds `metrics`:
\* the committed store, and whether the run left by an exception
parse_log_file(db, metrics, ts, tx) == StoreMetrics(db, metrics, 1, ts, tx)

\* mutant of merge_data: files whose session id has rows already are left out
merge_data_SkipKnown(db, files, tx) ==
    LET fresh == SelectSeq(files, LAMBDA f :
                   \A i \in 1..Len(db["session_messages"]) :
                      db["session_messages"][i].session_id # f.stem)
        r == MergeFiles(db, fresh, 1, tx)
        committed == files # <<>> /\ ~r.raised
    IN  [db |-> IF committed THEN r.db ELSE db, raised |-> r.raised,
         committed |-> committed]

\* merge_data(db_path) when find_session_files returns `files`
merge_data(db, files, tx) ==
    LET r == MergeFiles(db, files, 1, tx)
        committed == files # <<>> /\ ~r.raised
    IN  [db |-> IF committed THEN r.db ELSE db, raised |-> r.raised,
         committed |-> committed]

\* a + b on Python integers (no width)
Plus(a, b) ==
    LET s0 == a[3] + b[3]
        s1 == a[2] + b[2] + (s0 \div LimbBase)
        s2 == a[1] + b[1] + (s1 \div LimbBase)
    IN  <<s2, s1 % LimbBase, s0 % LimbBase>>

\* SUM(CASE WHEN token_type = type THEN value ELSE 0 END) FROM token_usage:
\* SQLite adds 64-bit integers and fails with "integer overflow" when the
\* running total leaves the 64-bit range; over no rows the sum is NULL
RECURSIVE SumWhere(_, _, _, _)
SumWhere(rows, type, i, acc) ==
    IF i > Len(rows) THEN [raised |-> FALSE, total |-> acc]
    ELSE LET term == IF rows[i].token_type = type THEN rows[i].value
                     ELSE Int64(0)
             next == Plus(acc, term)
         IN  IF next[1] >= Int64Limit
             THEN [raised |-> TRUE, total |-> acc]
             ELSE SumWhere(rows, type, i + 1, next)

\* calculate_cache_metrics(cursor) on a connection that sees db; raised when
\* cursor.execute fails.  `row[k] or 0` turns the NULL of an empty table and a
\* zero total into 0.  estimated_savings = cache_read * 0.000003 * 0.9 is kept
\* as its factors.
calculate_cache_metrics(db) ==
    LET rows == db["token_usage"]
        r0 == SumWhere(rows, "cacheRead", 1, Int64(0))
        r1 == SumWhere(rows, "cacheCreation", 1, Int64(0))
        r2 == SumWhere(rows, "input", 1, Int64(0))
        cache_read == r0.total
        cache_creation == r1.total
        input_tokens == r2.total
    IN  IF r0.raised \/ r1.raised \/ r2.raised
        THEN [raised |-> TRUE, metrics |-> NoMetrics]
        ELSE [raised |-> FALSE,
              metrics |->
                [cache_read_tokens |-> cache_read,
                 cache_creation_tokens |-> cache_creation,
                 input_tokens |-> input_tokens,
                 cache_hit_ratio |->
                   Ratio(cache_read, Plus(cache_read, cache_creation)),
                 cache_efficiency |->
                   Ratio(cache_read, Plus(cache_read, input_tokens)),
                 cache_read_creation_ratio |-> Ratio(cache_read, cache_creation),
                 estimated_savings |-> [tokens |-> cache_read, rate |-> <<3, 9>>]]]

(* Logs *)

\* a data point whose value needs more than 30 bits
DPBig(attrs, limbs) == [DP(attrs, 0) EXCEPT !.value = limbs]

AttrsCache(type) == ("session.id" :> "s1") @@ ("type" :> type)

\* 2^62
Big == <<4, 0, 0>>

\* the metrics of a log file, in file order
SampleLogs ==
    << << >>,
       << Metric(NameTokenUsage, << DP(AttrsNull, 1) >>) >>,
       << Metric(NameTokenUsage,
                 << DP(AttrsS1Output, 42), DP(AttrsS1Full, 7), DP(AttrsS2, 5) >>),
          Metric(NameCostUsage, << DP(AttrsS1Full, 2) >>) >>,
       << Metric(NameTokenUsage,
                 << DP(AttrsCache("cacheRead"), 3),
                    DP(AttrsCache("cacheCreation"), 1) >>) >>,
       << Metric(NameTokenUsage,
                 << DP(AttrsCache("cacheRead"), 0), DP(AttrsCache("input"), 0) >>) >>,
       << Metric(NameTokenUsage,
                 << DPBig(AttrsCache("cacheRead"), Big),
                    DPBig(AttrsCache("cacheRead"), Big) >>) >>,
       << Metric(NameTokenUsage, << DPBig(AttrsCache("cacheCreation"), Big) >>),
          Metric(NameTokenUsage, << DPBig(AttrsCache("input"), Big) >>) >>,
       << Metric(NameActiveTime, << DP(AttrsS2, 30) >>),
          Metric(NameTokenUsage, << DP(AttrsS2, 3), DPListValue(AttrsS1Full, 9) >>),
          Metric(NameCostUsage, << DP(AttrsS1Full, 2) >>) >>,
       << Metric(NameFooBarBaz, << DP(AttrsS1Full, 4), DP(AttrsS2, 6) >>),
          NoMetric >> >>

\* history: one finished run, its input and the store it started from
Run(op, log, files, raised) ==
    [op |-> op, log |-> log, files |-> files, before |-> durable,
     raised |-> raised]

\* python parse_otel_metrics.py <log>
IngestLog ==
    /\ Len(runs) < MaxRuns
    /\ \E k \in 1..Len(SampleLogs) :
         LET r == parse_log_file(durable, SampleLogs[k], clock, txid)
         IN  /\ durable' = r.db
             /\ clock' = r.ts
             /\ txid' = r.tx
             /\ conn' = IF r.raised THEN "open" ELSE "closed"
             /\ runs' = Append(runs, Run("parse", SampleLogs[k], <<>>, r.raised))
    /\ UNCHANGED <<pc, todo, calls, merges, atStart, last, report>>

\* python combine_sources.py
MergeTranscripts ==
    /\ Len(runs) < MaxRuns
    /\ \E files \in SampleFileLists :
         LET r == merge_data(durable, files, txid)
         IN  /\ durable' = r.db
             /\ txid' = IF r.committed THEN txid + 1 ELSE txid
             /\ conn' = IF r.raised THEN "open" ELSE "closed"
             /\ runs' = Append(runs, Run("merge", <<>>, files, r.raised))
    /\ UNCHANGED <<pc, todo, calls, merges, clock, atStart, last, report>>

\* calculate_cache_metrics on a fresh connection to the store
CacheMetrics ==
    /\ Len(runs) < MaxRuns
    /\ LET r == calculate_cache_metrics(durable)
       IN  /\ report' = r
           /\ conn' = IF r.raised THEN "open" ELSE "closed"
           /\ runs' = Append(runs, Run("cache", <<>>, <<>>, r.raised))
    /\ UNCHANGED <<durable, pc, todo, calls, merges, clock, txid, atStart, last>>

NextRuns ==
    \/ (IngestLog /\ UNCHANGED textVars)
    \/ (MergeTranscripts /\ UNCHANGED textVars)
    \/ (CacheMetrics /\ UNCHANGED textVars)

SpecRuns == Init /\ [][NextRuns]_vars

-----------------------------------------------------------------------------
(* Properties of the store *)

\* the usage rows of a store, each with its table
UsageRowsOf(db) ==
    UNION { { [table |-> t, row |-> db[t][i]] : i \in 1..Len(db[t]) } :
            t \in UsageTables }

\* the session id a data point resolves to
ResolvedSession(dp) ==
    IF ~dp.hasAttrs THEN "unknown"
    ELSE IF "session.id" \in DOMAIN dp.attrs THEN dp.attrs["session.id"]
    ELSE IF "session_id" \in DOMAIN dp.attrs THEN dp.attrs["session_id"]
    ELSE "unknown"

\* the rows a step appended to a table
Added(t) == SubSeq(durable[t], Len(last.before[t]) + 1, Len(durable[t]))

\* a step only appends
AppendOnly(t) ==
    /\ Len(durable[t]) >= Len(last.before[t])
    /\ SubSeq(durable[t], 1, Len(last.before[t])) = last.before[t]

\* C1 (as stated): every usage row references an existing session, whose row
\* was inserted before it and in the transaction of the first usage row that
\* references that session
C1_SessionInSameTransaction ==
    \A u \in UsageRowsOf(durable) :
        \E i \in 1..Len(durable["sessions"]) :
            LET s == durable["sessions"][i]
                first == CHOOSE f \in UsageRowsOf(durable) :
                           /\ f.row.session_id = u.row.session_id
                           /\ \A g \in UsageRowsOf(durable) :
                                g.row.session_id = u.row.session_id
                                  => f.row.seq <= g.row.seq
            IN  /\ s.session_id = u.row.session_id
                /\ s.seq < first.row.seq
                /\ s.tx = first.row.tx

\* C1 (amended): every usage row references a session whose row exists and was
\* inserted before it, in the same transaction or in an earlier one
C1_SessionExistsBeforeUsage ==
    \A u \in UsageRowsOf(durable) :
        \E i \in 1..Len(durable["sessions"]) :
            LET s == durable["sessions"][i]
            IN  /\ s.session_id = u.row.session_id
                /\ s.seq < u.row.seq
                /\ s.tx <= u.row.tx

\* C1 witness: a usage row whose session was committed by an earlier call that
\* stored no usage row for it
C1_Witness ==
    \E u \in UsageRowsOf(durable) :
        \E i \in 1..Len(durable["sessions"]) :
            /\ durable["sessions"][i].session_id = u.row.session_id
            /\ durable["sessions"][i].tx < u.row.tx
            /\ \A g \in UsageRowsOf(durable) :
                 g.row.session_id = u.row.session_id => g.row.tx = u.row.tx

\* C2 (as stated): a run that dies between two store_metric calls leaves none
\* of its log file's rows in the database file
C2_CrashLosesWholeBatch ==
    last.op = "crash" => durable = atStart

\* C3 (as stated): the sessions table never holds two rows with the same
\* session_id, and a step never changes an existing sessions row
C3_OneRowPerSession ==
    /\ \A i, j \in 1..Len(durable["sessions"]) :
         durable["sessions"][i].session_id = durable["sessions"][j].session_id
           => i = j
    /\ AppendOnly("sessions")

\* the table of the first keyword, in precedence order, that occurs in the
\* lower-cased name
KeywordTable ==
    << [kw |-> {KwToken}, table |-> "token_usage"],
       [kw |-> {KwCost}, table |-> "cost_usage"],
       [kw |-> {KwActiveTime}, table |-> "active_time"],
       [kw |-> {KwCommit, KwPullRequest, KwLinesOfCode}, table |-> "code_activity"] >>

Matches(k, name) == \E w \in KeywordTable[k].kw : Contains(w, Lower(name))

ExpectedTable(name) ==
    IF \E k \in 1..Len(KeywordTable) : Matches(k, name)
    THEN KeywordTable[CHOOSE k \in 1..Len(KeywordTable) :
                        /\ Matches(k, name)
                        /\ \A j \in 1..(k - 1) : ~Matches(j, name)].table
    ELSE "none"

\* C4: a completed store_metric call appends, for each data point in order,
\* one row to the table of the earliest matching keyword and to no other usage
\* table; the row carries the data point's value and resolved session id, and a
\* token row the `type` attribute (default "unknown")
C4_OneRowInFirstMatchingTable ==
    (last.op = "store" /\ last.committed) =>
        LET m == last.metric
            dps == m.dataPoints
            expected == ExpectedTable(m.name)
        IN  \A t \in UsageTables :
              /\ AppendOnly(t)
              /\ IF t = expected
                 THEN /\ Len(Added(t)) = Len(dps)
                      /\ \A i \in 1..Len(dps) :
                           /\ Added(t)[i].session_id = ResolvedSession(dps[i])
                           /\ Added(t)[i].value =
                                (IF dps[i].hasValue THEN dps[i].value ELSE Int64(0))
                           /\ t = "token_usage" =>
                                Added(t)[i].token_type =
                                  (IF dps[i].hasAttrs /\ "type" \in DOMAIN dps[i].attrs
                                   THEN dps[i].attrs["type"] ELSE "unknown")
                 ELSE Added(t) = <<>>

\* C4 witness: a metric whose name holds both "cost" and "token" was stored
\* and its data point is in token_usage
C4_Witness ==
    /\ last.op = "store"
    /\ last.committed
    /\ last.metric.name = NameTokenCost
    /\ Len(Added("token_usage")) = 1
    /\ Added("cost_usage") = <<>>

\* C8 (as stated): every store_metric call on an object with a descriptor
\* leaves exactly one more raw_metrics row, holding the object and its name
C8_ArchiveRowAlwaysPersists ==
    (last.op = "store" /\ last.metric.hasDescriptor) =>
        /\ Len(Added("raw_metrics")) = 1
        /\ Added("raw_metrics")[1].metric_name = last.metric.name
        /\ Added("raw_metrics")[1].raw_json = last.metric

\* the metric has a descriptor mapping, hence a name
Named(metric) == metric.hasDescriptor /\ metric.descriptorIsMap

NoKeyword(name) ==
    \A w \in {KwToken, KwCost, KwActiveTime, KwCommit, KwPullRequest, KwLinesOfCode} :
        ~Contains(w, Lower(name))

JsonLines(files) ==
    { <<k, i>> \in (1..Len(files)) \X (1..4) :
        i <= Len(files[k].lines) /\ files[k].lines[i].kind = "json" }

\* C10 (as stated): after merge_data, session_messages holds one more row for
\* every transcript line that parses as JSON, whatever its shape
C10_OneRowPerJsonLine ==
    last.op = "merge" =>
        /\ AppendOnly("session_messages")
        /\ Len(Added("session_messages")) = Cardinality(JsonLines(last.files))

\* C11 (as stated): every session id that has transcript rows in
\* session_messages has a row in sessions
C11_SessionRowForTranscript ==
    \A i \in 1..Len(durable["session_messages"]) :
        \E j \in 1..Len(durable["sessions"]) :
            durable["sessions"][j].session_id =
              durable["session_messages"][i].session_id

(* Properties of whole runs *)

\* the store when run k ended
After(k) == IF k < Len(runs) THEN runs[k + 1].before ELSE durable

\* a row without its history fields
Strip(row) == [f \in (DOMAIN row) \ {"tx", "seq"} |-> row[f]]

\* the rows of a table that belong to a session id, in rowid order
RowsOf(db, t, sid) == SelectSeq(db[t], LAMBDA r : r.session_id = sid)

\* the rows run k appended to a table for a session id, without history fields
AddedBy(k, t, sid) ==
    LET before == runs[k].before[t]
        after == After(k)[t]
        new == SubSeq(after, Len(before) + 1, Len(after))
        mine == SelectSeq(new, LAMBDA r : r.session_id = sid)
    IN  [i \in 1..Len(mine) |-> Strip(mine[i])]

\* run k only appended to a table
Extends(k, t) ==
    /\ Len(After(k)[t]) >= Len(runs[k].before[t])
    /\ SubSeq(After(k)[t], 1, Len(runs[k].before[t])) = runs[k].before[t]

Stems(files) == { files[k].stem : k \in 1..Len(files) }

\* C12: a merge_data run never deletes or changes a session_messages row; a
\* second run over the same transcript files appends for each file's session
\* id the rows the first run appended, so that the count for a session id
\* that had no rows before the first run is exactly doubled
C12_MergeTwiceDoubles ==
    /\ \A k \in 1..Len(runs) : Extends(k, "session_messages")
    /\ \A i, j \in 1..Len(runs) :
         (i < j /\ runs[i].op = "merge" /\ runs[j].op = "merge"
                /\ runs[i].files = runs[j].files) =>
           \A sid \in Stems(runs[i].files) :
              /\ AddedBy(j, "session_messages", sid)
                   = AddedBy(i, "session_messages", sid)
              /\ (j = i + 1 /\ RowsOf(runs[i].before, "session_messages", sid) = <<>>) =>
                   Len(RowsOf(After(j), "session_messages", sid))
                     = 2 * Len(RowsOf(After(i), "session_messages", sid))

\* C12 witness: two merges over the same two transcript files, after which the
\* session s1 has twice the rows the first merge gave it
C12_Witness ==
    /\ Len(runs) = 2
    /\ runs[1].op = "merge" /\ runs[2].op = "merge"
    /\ runs[1].files = runs[2].files
    /\ Len(runs[1].files) = 2
    /\ Len(RowsOf(After(1), "session_messages", "s1")) = 1
    /\ Len(RowsOf(durable, "session_messages", "s1")) = 2

\* a row without its history fields and without its timestamp
Event(row) == [f \in (DOMAIN row) \ {"tx", "seq", "timestamp"} |-> row[f]]

\* the rows run k appended to a table, as events
EventsBy(k, t) ==
    LET before == runs[k].before[t]
        after == After(k)[t]
    IN  [i \in 1..(Len(after) - Len(before)) |-> Event(after[Len(before) + i])]

\* C13 (as stated): a second parse_log_file run over the same log leaves the
\* sessions table as it was, and appends to every usage table and to
\* raw_metrics the rows the first run appended
C13_ReingestKeepsSessions ==
    \A i, j \in 1..Len(runs) :
        (i < j /\ runs[i].op = "parse" /\ runs[j].op = "parse"
               /\ runs[i].log = runs[j].log) =>
          /\ After(j)["sessions"] = runs[j].before["sessions"]
          /\ \A t \in UsageTables \cup {"raw_metrics"} :
               /\ Extends(j, t)
               /\ EventsBy(j, t) = EventsBy(i, t)

\* the rows one transaction appended to a table
TxRows(t, tx) == SelectSeq(durable[t], LAMBDA r : r.tx = tx)

\* pairs of completed store_metric calls on the same parsed object, earlier
\* call first: each call left one raw_metrics row holding the object
SameObjectCalls ==
    { <<i, j>> \in (1..Len(durable["raw_metrics"])) \X (1..Len(durable["raw_metrics"])) :
        /\ i < j
        /\ durable["raw_metrics"][i].raw_json = durable["raw_metrics"][j].raw_json }

\* C14 (as stated): two store_metric calls on the same parsed object append
\* usage events that agree in every field, the timestamp included
C14_SameEventsSameTimestamp ==
    \A p \in SameObjectCalls : \A t \in UsageTables :
        LET a == TxRows(t, durable["raw_metrics"][p[1]].tx)
            b == TxRows(t, durable["raw_metrics"][p[2]].tx)
        IN  [k \in 1..Len(a) |-> Strip(a[k])] = [k \in 1..Len(b) |-> Strip(b[k])]

\* C14 (amended): two store_metric calls on the same parsed object append
\* usage events that agree in every field but the timestamp; the timestamp of
\* an event is the time its own call read from the clock
C14_SameEventsOwnTimestamp ==
    \A p \in SameObjectCalls : \A t \in UsageTables :
        LET first == durable["raw_metrics"][p[1]]
            second == durable["raw_metrics"][p[2]]
            a == TxRows(t, first.tx)
            b == TxRows(t, second.tx)
        IN  /\ [k \in 1..Len(a) |-> Event(a[k])] = [k \in 1..Len(b) |-> Event(b[k])]
            /\ \A k \in 1..Len(a) : a[k].timestamp = first.timestamp
            /\ \A k \in 1..Len(b) : b[k].timestamp = second.timestamp

\* C14 witness: the three-point token metric was stored twice and each call
\* left its three token events
C14_Witness ==
    \E p \in SameObjectCalls :
        /\ Len(TxRows("token_usage", durable["raw_metrics"][p[1]].tx)) = 3
        /\ Len(TxRows("token_usage", durable["raw_metrics"][p[2]].tx)) = 3

\* the exact sum of the token_usage values of one token type
RECURSIVE TokenTotal(_, _, _)
TokenTotal(db, type, n) ==
    IF n = 0 THEN Int64(0)
    ELSE LET row == db["token_usage"][n]
         IN  IF row.token_type = type
             THEN Plus(TokenTotal(db, type, n - 1), row.value)
             ELSE TokenTotal(db, type, n - 1)

Total(type) == TokenTotal(durable, type, Len(durable["token_usage"]))

\* C15 (as stated): calculate_cache_metrics on the ingested store returns, and
\* returns cache_hit_ratio = cache_read / (cache_read + cache_creation) and
\* cache_efficiency = cache_read / (cache_read + input), each 0 when its
\* denominator is 0
C15_CacheRatios ==
    (runs # <<>> /\ runs[Len(runs)].op = "cache") =>
        /\ ~report.raised
        /\ report.metrics.cache_hit_ratio =
             (IF Plus(Total("cacheRead"), Total("cacheCreation")) = Int64(0)
              THEN [num |-> Int64(0), den |-> Int64(1)]
              ELSE [num |-> Total("cacheRead"),
                    den |-> Plus(Total("cacheRead"), Total("cacheCreation"))])
        /\ report.metrics.cache_efficiency =
             (IF Plus(Total("cacheRead"), Total("input")) = Int64(0)
              THEN [num |-> Int64(0), den |-> Int64(1)]
              ELSE [num |-> Total("cacheRead"),
                    den |-> Plus(Total("cacheRead"), Total("input"))])

\* C16 (as stated): whenever no top-level operation is running, the store
\* connection of the last one has been closed
C16_ConnectionReleased ==
    pc = "idle" => conn # "open"

\* the user id and the model a data point resolves to
ResolvedUser(dp) ==
    IF ~dp.hasAttrs THEN "unknown"
    ELSE IF "user.id" \in DOMAIN dp.attrs THEN dp.attrs["user.id"]
    ELSE IF "user_id" \in DOMAIN dp.attrs THEN dp.attrs["user_id"]
    ELSE "unknown"

ResolvedModel(dp) ==
    IF dp.hasAttrs /\ "model" \in DOMAIN dp.attrs THEN dp.attrs["model"]
    ELSE "unknown"

\* a metric whose parts have the expected shapes: a descriptor mapping and a
\* list of data-point mappings with scalar values
WellShaped(metric) ==
    /\ Named(metric)
    /\ metric.dataPointsIsList
    /\ \A i \in 1..Len(metric.dataPoints) :
         /\ metric.dataPoints[i].isMap
         /\ metric.dataPoints[i].hasValue => metric.dataPoints[i].bindable

\* C17: store_metric on a well-shaped metric never fails, whatever attributes
\* are missing; each data point's session exists afterwards under the id taken
\* from `session.id`, else `session_id`, else "unknown"; a session row the
\* call adds carries the user id (`user.id`, else `user_id`, else "unknown")
\* and the model (`model`, else "unknown") of one of its data points; a usage
\* row carries the resolved session id, the value (else 0) and, in
\* token_usage and cost_usage, the resolved model; and the sessions table
\* never holds more than one row "unknown"
C17_AttributeDefaults ==
    /\ Cardinality({ j \in 1..Len(durable["sessions"]) :
                       durable["sessions"][j].session_id = "unknown" }) <= 1
    /\ (last.op = "store" /\ WellShaped(last.metric)) =>
         (~last.raised /\ last.committed)
    /\ (last.op = "store" /\ last.committed) =>
         LET dps == last.metric.dataPoints
             table == ExpectedTable(last.metric.name)
         IN  /\ \A i \in 1..Len(dps) :
                  \E j \in 1..Len(durable["sessions"]) :
                     durable["sessions"][j].session_id = ResolvedSession(dps[i])
             /\ \A j \in 1..Len(Added("sessions")) :
                  \E i \in 1..Len(dps) :
                     /\ Added("sessions")[j].session_id = ResolvedSession(dps[i])
                     /\ Added("sessions")[j].user_id = ResolvedUser(dps[i])
                     /\ Added("sessions")[j].model = ResolvedModel(dps[i])
             /\ table # "none" =>
                  /\ Len(Added(table)) = Len(dps)
                  /\ \A i \in 1..Len(dps) :
                       /\ Added(table)[i].session_id = ResolvedSession(dps[i])
                       /\ Added(table)[i].value =
                            (IF dps[i].hasValue THEN dps[i].value ELSE Int64(0))
                       /\ table \in {"token_usage", "cost_usage"} =>
                            Added(table)[i].model = ResolvedModel(dps[i])

\* C17 witness: a data point without attributes and without value was stored
\* when the session "unknown" existed already; its row has session "unknown"
\* and value 0 and no second session "unknown" was added
C17_Witness ==
    /\ last.op = "store"
    /\ last.committed
    /\ Len(last.metric.dataPoints) = 1
    /\ ~last.metric.dataPoints[1].hasAttrs
    /\ \E j \in 1..Len(last.before["sessions"]) :
         last.before["sessions"][j].session_id = "unknown"
    /\ Added("sessions") = <<>>
    /\ Len(Added("token_usage")) = 1
    /\ Added("token_usage")[1].session_id = "unknown"
    /\ Added("token_usage")[1].value = Int64(0)

-----------------------------------------------------------------------------
(* json.loads on the characters the log samples use: objects, arrays,      *)
(* strings without escapes, unsigned integers, true / false / null          *)

Digits == <<"0","1","2","3","4","5","6","7","8","9">>

IsDigit(c) == \E i \in 1..Len(Digits) : Digits[i] = c
DigitValue(c) == (CHOOSE i \in 1..Len(Digits) : Digits[i] = c) - 1

\* \s
IsSpace(c) == c = " "

\* \w
IsWord(c) ==
    \/ IsDigit(c)
    \/ c = "_"
    \/ \E i \in 1..Len(LowerAlpha) : LowerAlpha[i] = c \/ UpperAlpha[i] = c

\* the dict without keys
EmptyMap == [k \in {} |-> 0]

\* parsed JSON values; the members of an object are a function from keys to
\* values, as a dict
JNum(n) == [t |-> "num", n |-> n, s |-> <<>>, a |-> <<>>, m |-> EmptyMap]
JStr(str) == [t |-> "str", n |-> 0, s |-> str, a |-> <<>>, m |-> EmptyMap]
JLit(name) == [t |-> "lit", n |-> 0, s |-> name, a |-> <<>>, m |-> EmptyMap]
JArr(items) == [t |-> "arr", n |-> 0, s |-> <<>>, a |-> items, m |-> EmptyMap]
JObj(members) == [t |-> "obj", n |-> 0, s |-> <<>>, a |-> <<>>, m |-> members]

\* bool(value)
Truthy(v) ==
    CASE v.t = "num" -> v.n # 0
      [] v.t = "str" -> v.s # <<>>
      [] v.t = "lit" -> v.s = <<"t","r","u","e">>
      [] v.t = "arr" -> v.a # <<>>
      [] v.t = "obj" -> DOMAIN v.m # {}

Failed == [ok |-> FALSE, v |-> JLit(<<>>), next |-> 0]
Parsed(v, next) == [ok |-> TRUE, v |-> v, next |-> next]

\* the first position >= i that holds no whitespace
RECURSIVE SkipSpace(_, _)
SkipSpace(s, i) ==
    IF i <= Len(s) /\ IsSpace(s[i]) THEN SkipSpace(s, i + 1) ELSE i

\* the end of the run of digits that starts at i
RECURSIVE DigitsEnd(_, _)
DigitsEnd(s, i) ==
    IF i <= Len(s) /\ IsDigit(s[i]) THEN DigitsEnd(s, i + 1) ELSE i

RECURSIVE DecimalValue(_, _)
DecimalValue(s, acc) ==
    IF s = <<>> THEN acc ELSE DecimalValue(Tail(s), 10 * acc + DigitValue(Head(s)))

HasAt(s, i, w) == i + Len(w) - 1 <= Len(s) /\ SubSeq(s, i, i + Len(w) - 1) = w

RECURSIVE ParseValue(_, _)
RECURSIVE ParseMembers(_, _, _)
RECURSIVE ParseElements(_, _, _)

\* s[i] is the opening quote
ParseString(s, i) ==
    LET j == FindChar(s, "\"", i + 1)
    IN  IF j = 0 THEN Failed ELSE Parsed(JStr(SubSeq(s, i + 1, j - 1)), j + 1)

\* a number starts at i: a lone 0, or a nonzero digit and more digits
ParseNumber(s, i) ==
    LET e == IF s[i] = "0" THEN i + 1 ELSE DigitsEnd(s, i)
    IN  Parsed(JNum(DecimalValue(SubSeq(s, i, e - 1), 0)), e)

\* after `{` or `,`: "key" : value, then `,` or `}`
ParseMembers(s, i, acc) ==
    LET k == SkipSpace(s, i)
    IN  IF k > Len(s) \/ s[k] # "\"" THEN Failed
        ELSE
          LET key == ParseString(s, k)
              c == SkipSpace(s, key.next)
          IN  IF ~key.ok \/ c > Len(s) \/ s[c] # ":" THEN Failed
              ELSE
                LET val == ParseValue(s, SkipSpace(s, c + 1))
                    e == SkipSpace(s, val.next)
                    members == (key.v.s :> val.v) @@ acc
                IN  IF ~val.ok \/ e > Len(s) THEN Failed
                    ELSE IF s[e] = "}" THEN Parsed(JObj(members), e + 1)
                    ELSE IF s[e] = "," THEN ParseMembers(s, e + 1, members)
                    ELSE Failed

\* after `[` or `,`: value, then `,` or `]`
ParseElements(s, i, acc) ==
    LET val == ParseValue(s, SkipSpace(s, i))
        e == SkipSpace(s, val.next)
    IN  IF ~val.ok \/ e > Len(s) THEN Failed
        ELSE IF s[e] = "]" THEN Parsed(JArr(Append(acc, val.v)), e + 1)
        ELSE IF s[e] = "," THEN ParseElements(s, e + 1, Append(acc, val.v))
        ELSE Failed

\* a value starts at i
ParseValue(s, i) ==
    IF i > Len(s) THEN Failed
    ELSE IF s[i] = "{" THEN
           LET k == SkipSpace(s, i + 1)
           IN  IF k <= Len(s) /\ s[k] = "}" THEN Parsed(JObj(EmptyMap), k + 1)
               ELSE ParseMembers(s, i + 1, EmptyMap)
    ELSE IF s[i] = "[" THEN
           LET k == SkipSpace(s, i + 1)
           IN  IF k <= Len(s) /\ s[k] = "]" THEN Parsed(JArr(<<>>), k + 1)
               ELSE ParseElements(s, i + 1, <<>>)
    ELSE IF s[i] = "\"" THEN ParseString(s, i)
    ELSE IF IsDigit(s[i]) THEN ParseNumber(s, i)
    ELSE IF HasAt(s, i, <<"t","r","u","e">>) THEN Parsed(JLit(<<"t","r","u","e">>), i + 4)
    ELSE IF HasAt(s, i, <<"f","a","l","s","e">>)
         THEN Parsed(JLit(<<"f","a","l","s","e">>), i + 5)
    ELSE IF HasAt(s, i, <<"n","u","l","l">>) THEN Parsed(JLit(<<"n","u","l","l">>), i + 4)
    ELSE Failed

\* json.loads(s): one value, whitespace around it, nothing else;
\* ok is FALSE where json.loads raises JSONDecodeError
json_loads(s) ==
    LET r == ParseValue(s, SkipSpace(s, 1))
    IN  IF r.ok /\ SkipSpace(s, r.next) > Len(s) THEN r ELSE Failed

-----------------------------------------------------------------------------
(* parse_metric_block *)

\* block.replace("'", '"')
ReplaceQuotes(s) == [i \in 1..Len(s) |-> IF s[i] = "'" THEN "\"" ELSE s[i]]

\* the end of the run of \w characters that starts at i
RECURSIVE WordEnd(_, _)
WordEnd(s, i) ==
    IF i <= Len(s) /\ IsWord(s[i]) THEN WordEnd(s, i + 1) ELSE i

\* the concatenation of piece[lo], ..., piece[hi]
RECURSIVE Concat(_, _, _)
Concat(piece, lo, hi) ==
    IF lo > hi THEN <<>>
    ELSE IF lo = hi THEN piece[lo]
    ELSE LET mid == (lo + hi) \div 2
         IN  Concat(piece, lo, mid) \o Concat(piece, mid + 1, hi)

\* (\w+): matches from i: a run of \w starts at i and a colon ends it.  The
\* scan never starts a match inside a run: the text before i is a colon or
\* no \w character
KeyStartsAt(s, i) ==
    /\ IsWord(s[i])
    /\ i = 1 \/ ~IsWord(s[i - 1])
    /\ LET e == WordEnd(s, i) IN e <= Len(s) /\ s[e] = ":"

\* re.sub(r'(\w+):', r'"\1":', s)
QuoteKeys(s) ==
    LET piece == [i \in 1..Len(s) |->
                    IF KeyStartsAt(s, i) THEN <<"\"", s[i]>>
                    ELSE IF s[i] = ":" /\ i > 1 /\ IsWord(s[i - 1]) THEN <<"\"", ":">>
                    ELSE <<s[i]>>]
    IN  Concat(piece, 1, Len(s))

\* mutant of StripTrailingCommas: no comma is removed
StripTrailingCommas_Never(s) == s

\* ,(\s*[}\]]) matches from i
TrailingCommaAt(s, i) ==
    /\ s[i] = ","
    /\ LET k == SkipSpace(s, i + 1) IN k <= Len(s) /\ s[k] \in {"}", "]"}

\* re.sub(r',(\s*[}\]])', r'\1', s)
StripTrailingCommas(s) ==
    LET kept == Ascending({ i \in 1..Len(s) : ~TrailingCommaAt(s, i) })
    IN  [j \in 1..Len(kept) |-> s[kept[j]]]

\* the text handed to json.loads
Cleaned(block) == StripTrailingCommas(QuoteKeys(ReplaceQuotes(block)))

\* parse_metric_block(block); ok is FALSE where it returns None
parse_metric_block(block) == json_loads(Cleaned(block))

-----------------------------------------------------------------------------
(* extract_metrics_from_log *)

DescriptorColon == <<"d","e","s","c","r","i","p","t","o","r",":">>

\* the pattern \{\s*descriptor: matches at i
MarkerAt(s, i) ==
    /\ i <= Len(s)
    /\ s[i] = "{"
    /\ HasAt(s, SkipSpace(s, i + 1), DescriptorColon)

\* re.split(r'(?=\{\s*descriptor:)', s): s cut before every marker; the
\* first piece is empty when s starts with a marker
SplitAtMarkers(s) ==
    LET cuts == Ascending({ i \in 1..Len(s) : MarkerAt(s, i) })
    IN  [k \in 1..(Len(cuts) + 1) |->
           SubSeq(s,
                  IF k = 1 THEN 1 ELSE cuts[k - 1],
                  IF k = Len(cuts) + 1 THEN Len(s) ELSE cuts[k] - 1)]

\* mutant of BraceEnd: end = i instead of end = i + 1
RECURSIVE BraceEnd_OffByOne(_, _, _, _)
BraceEnd_OffByOne(block, start, i, brace_count) ==
    LET braces == { j \in i..Len(block) : block[j] \in {"{", "}"} }
    IN  IF braces = {} THEN start - 1
        ELSE LET j == Least(braces)
             IN  IF block[j] = "{"
                 THEN BraceEnd_OffByOne(block, start, j + 1, brace_count + 1)
                 ELSE IF brace_count - 1 = 0 THEN j - 1
                 ELSE BraceEnd_OffByOne(block, start, j + 1, brace_count - 1)

\* the loop over block[start:], from position i on with the given
\* brace_count: the last position of block[start:end] when the loop is left
\* (start - 1 when it runs to the end of the block).  Characters that are no
\* brace leave brace_count alone, so the loop is followed from brace to brace
RECURSIVE BraceEnd(_, _, _, _)
BraceEnd(block, start, i, brace_count) ==
    LET braces == { j \in i..Len(block) : block[j] \in {"{", "}"} }
    IN  IF braces = {} THEN start - 1
        ELSE LET j == Least(braces)
             IN  IF block[j] = "{" THEN BraceEnd(block, start, j + 1, brace_count + 1)
                 ELSE IF brace_count - 1 = 0 THEN j
                 ELSE BraceEnd(block, start, j + 1, brace_count - 1)

\* the body of `for block in blocks`: the metrics the block appends
BlockMetrics(block) ==
    IF ~Contains(DescriptorColon, block) THEN <<>>
    ELSE LET start == FindChar(block, "{", 1)
         IN  IF start = 0 THEN <<>>
             ELSE LET metric_str == SubSeq(block, start, BraceEnd(block, start, start, 0))
                      parsed == parse_metric_block(metric_str)
                  IN  IF parsed.ok /\ Truthy(parsed.v) THEN << parsed.v >> ELSE <<>>

RECURSIVE CollectMetrics(_, _)
CollectMetrics(blocks, i) ==
    IF i > Len(blocks) THEN <<>>
    ELSE BlockMetrics(blocks[i]) \o CollectMetrics(blocks, i + 1)

extract_metrics_from_log(log_content) ==
    CollectMetrics(SplitAtMarkers(log_content), 1)

-----------------------------------------------------------------------------
(* The text pipeline on sample logs *)

\* {name: 'foo', count: 3,}
CkExample == <<"{","n","a","m","e",":"," ","'","f","o","o","'",","," ","c","o","u","n","t",":"," ","3",",","}">>
\* { descriptor: {name: 'a'}, dataPoints: [1,],}
CkMetric == <<"{"," ","d","e","s","c","r","i","p","t","o","r",":"," ","{","n","a","m","e",":"," ","'","a","'","}",","," ","d","a","t","a","P","o","i","n","t","s",":"," ","[","1",",","]",",","}">>
\* the word alone: `descriptor: `
CkWord == <<"d","e","s","c","r","i","p","t","o","r",":"," ">>
\* a marker that opens two braces: `{descriptor: 7, x: {`
CkOpen == <<"{","d","e","s","c","r","i","p","t","o","r",":"," ","7",","," ","x",":"," ","{">>
CkClose == <<"}">>
\* a balanced marker span json.loads rejects: `{descriptor: oops}`
CkBad == <<"{","d","e","s","c","r","i","p","t","o","r",":"," ","o","o","p","s","}">>
CkText == <<" ","l","o","g"," ">>

LogChunks == {CkExample, CkMetric, CkWord, CkOpen, CkClose, CkBad, CkText}

RECURSIVE Flatten(_)
Flatten(chunks) ==
    IF chunks = <<>> THEN <<>> ELSE Head(chunks) \o Flatten(Tail(chunks))

InitText ==
    /\ \E n \in 0..MaxChunks : \E chunks \in [1..n -> LogChunks] :
         text = Flatten(chunks)
    /\ result = <<>>
    /\ cleaned = <<>>
    /\ tpc = "input"
    /\ durable = EmptyStore
    /\ conn = "none"
    /\ pc = "idle"
    /\ todo = 0
    /\ calls = 0
    /\ merges = 0
    /\ clock = 1
    /\ txid = 1
    /\ atStart = EmptyStore
    /\ last = [op |-> "init", metric |-> NoMetric, files |-> <<>>,
               before |-> EmptyStore, raised |-> FALSE, committed |-> FALSE]
    /\ runs = <<>>
    /\ report = NoReport

\* metrics = extract_metrics_from_log(content)
Extract ==
    /\ tpc = "input"
    /\ result' = extract_metrics_from_log(text)
    /\ tpc' = "extracted"
    /\ UNCHANGED <<text, cleaned>>

\* parse_metric_block(text)
ParseBlock ==
    /\ tpc = "input"
    /\ LET a == ReplaceQuotes(text)
           b == QuoteKeys(a)
           c == StripTrailingCommas(b)
           parsed == parse_metric_block(text)
       IN  /\ cleaned' = <<a, b, c>>
           /\ result' = IF parsed.ok THEN << parsed.v >> ELSE <<>>
    /\ tpc' = "parsed"
    /\ UNCHANGED text

NextText ==
    \/ (Extract /\ UNCHANGED <<storeVars, runVars>>)
    \/ (ParseBlock /\ UNCHANGED <<storeVars, runVars>>)

SpecText == InitText /\ [][NextText]_vars

-----------------------------------------------------------------------------
(* Properties of the text pipeline *)

Markers(s) == { i \in 1..Len(s) : MarkerAt(s, i) }

Count(s, from, to, c) == Cardinality({ i \in from..to : s[i] = c })

\* the position of the brace that balances the one at p, looking no further
\* than limit; 0 when there is none
Balancing(s, p, limit) ==
    LET Depth(q) == Count(s, p, q, "{") - Count(s, p, q, "}")
        closes == { q \in p..limit :
                      Depth(q) = 0 /\ \A r \in p..(q - 1) : Depth(r) > 0 }
    IN  IF closes = {} THEN 0
        ELSE Least(closes)

\* the last position before the next marker after p
BlockLimit(s, p) ==
    LET later == { i \in Markers(s) : i > p }
    IN  IF later = {} THEN Len(s)
        ELSE Least(later) - 1

\* the marker at p opens a block that is closed before the next marker and
\* parses
WellFormedAt(s, p) ==
    /\ Balancing(s, p, BlockLimit(s, p)) # 0
    /\ parse_metric_block(SubSeq(s, p, Balancing(s, p, BlockLimit(s, p)))).ok

\* the records of the well-formed blocks, in text order
BlockRecords(s) ==
    LET at == Ascending({ p \in Markers(s) : WellFormedAt(s, p) })
    IN  [k \in 1..Len(at) |->
           parse_metric_block(
             SubSeq(s, at[k], Balancing(s, at[k], BlockLimit(s, at[k])))).v]

\* every marker opens a block that is balanced and parses, and no marker lies
\* inside the block of another
BlocksEmbedded(s) ==
    \A p \in Markers(s) :
        /\ Balancing(s, p, Len(s)) # 0
        /\ \A q \in Markers(s) : ~(p < q /\ q <= Balancing(s, p, Len(s)))
        /\ WellFormedAt(s, p)

\* C5 (as stated): on a log of balanced metric blocks in surrounding text the
\* extractor returns, in text order, the record of every marker span and
\* nothing else
C5_ExactlyTheMarkerSpans ==
    (tpc = "extracted" /\ BlocksEmbedded(text)) => result = BlockRecords(text)

Key(name, v) == name :> v

ExampleRecord ==
    JObj(Key(<<"n","a","m","e">>, JStr(<<"f","o","o">>))
           @@ Key(<<"c","o","u","n","t">>, JNum(3)))

MetricRecord ==
    JObj(Key(<<"d","e","s","c","r","i","p","t","o","r">>,
             JObj(Key(<<"n","a","m","e">>, JStr(<<"a">>))))
           @@ Key(<<"d","a","t","a","P","o","i","n","t","s">>, JArr(<< JNum(1) >>)))

\* C7: parse_metric_block on {name: 'foo', count: 3,} rewrites the quotes,
\* then quotes the keys, then drops the trailing comma, and returns
\* {"name": "foo", "count": 3}; the sample metric block parses to its record
\* and a span with a bare word as value to None
C7_LenientParseExample ==
    tpc = "parsed" =>
        /\ text = CkExample =>
             /\ cleaned[1] = <<"{","n","a","m","e",":"," ","\"","f","o","o","\"",","," ","c","o","u","n","t",":"," ","3",",","}">>
             /\ cleaned[2] = <<"{","\"","n","a","m","e","\"",":"," ","\"","f","o","o","\"",","," ","\"","c","o","u","n","t","\"",":"," ","3",",","}">>
             /\ cleaned[3] = <<"{","\"","n","a","m","e","\"",":"," ","\"","f","o","o","\"",","," ","\"","c","o","u","n","t","\"",":"," ","3","}">>
             /\ result = << ExampleRecord >>
        /\ text = CkMetric => result = << MetricRecord >>
        /\ text = CkBad => result = <<>>

\* C7 witness: the example block was parsed to a record
C7_Witness ==
    /\ tpc = "parsed"
    /\ text = CkExample
    /\ result # <<>>

====
